---- MODULE Spec2Model ----
(***************************************************************************)
(* Model of todoist_sync.py: one reconciliation pass of                    *)
(* sync_calendar_to_todoist over a personal feed and a reference (schema)  *)
(* feed, the tracking file added_events.txt, and the pure helpers the pass *)
(* calls.                                                                  *)
(*                                                                         *)
(* Text is modelled character by character: a Python str is a sequence of  *)
(* one-character strings.  An iCalendar component is a record whose        *)
(* DOMAIN holds exactly the properties the component carries, so that      *)
(* comp.get(key, default) is Get(comp, key, default).  A date is           *)
(* [day |-> d]; a date-time is [day |-> d, hour |-> h, minute |-> m].      *)
(***************************************************************************)
EXTENDS Integers, Sequences, FiniteSets, TLC

\* ------------------------------------------------------------------ bounds
\* Number of reconciliation passes a behaviour runs.
MaxPasses == 2

\* Longest reference feed (in events) the schedule matcher is probed with.
MaxSchemaLen == 2

\* ------------------------------------------------------------ text helpers
\* The whitespace characters of the modelled alphabet (Python's \s, str.strip).
Whitespace == {" ", "\n", "\t"}

UpperLetters == <<"A","B","C","D","E","F","G","H","I","J","K","L","M",
                  "N","O","P","Q","R","S","T","U","V","W","X","Y","Z">>
LowerLetters == <<"a","b","c","d","e","f","g","h","i","j","k","l","m",
                  "n","o","p","q","r","s","t","u","v","w","x","y","z">>

\* str.lower() on one character.
LowerChar(c) ==
    IF \E i \in 1..Len(UpperLetters) : UpperLetters[i] = c
    THEN LowerLetters[CHOOSE i \in 1..Len(UpperLetters) : UpperLetters[i] = c]
    ELSE c

\* str.lower()
RECURSIVE lower(_)
lower(s) == IF s = <<>> THEN <<>> ELSE <<LowerChar(Head(s))>> \o lower(Tail(s))

\* s[a-1 : b] in Python terms: the characters at 1-based positions a..b.
Slice(s, a, b) == IF b < a THEN <<>> ELSE SubSeq(s, a, b)

\* str.lstrip() / str.rstrip() / str.strip()
RECURSIVE lstrip(_)
lstrip(s) ==
    IF s # <<>> /\ Head(s) \in Whitespace THEN lstrip(Tail(s)) ELSE s

RECURSIVE rstrip(_)
rstrip(s) ==
    IF s # <<>> /\ s[Len(s)] \in Whitespace
    THEN rstrip(Slice(s, 1, Len(s) - 1)) ELSE s

strip(s) == rstrip(lstrip(s))

\* str.startswith(prefix)
startswith(s, prefix) ==
    /\ Len(prefix) <= Len(s)
    /\ Slice(s, 1, Len(prefix)) = prefix

\* str.find(sub): the 1-based position of the first occurrence of sub in s,
\* 0 when there is none (Python's -1).
find(s, sub) ==
    LET hits == {i \in 1..(Len(s) - Len(sub) + 1) :
                    Slice(s, i, i + Len(sub) - 1) = sub}
    IN  IF Len(sub) = 0 THEN 1
        ELSE IF hits = {} THEN 0
        ELSE CHOOSE i \in hits : \A j \in hits : i <= j

\* Python's `sub in s`
In(sub, s) == find(s, sub) # 0

\* re.sub(r'\s+', ' ', text): every maximal run of whitespace becomes one space.
RECURSIVE CollapseWhitespace(_)
CollapseWhitespace(s) ==
    IF s = <<>> THEN <<>>
    ELSE IF Head(s) \in Whitespace
         THEN <<" ">> \o CollapseWhitespace(lstrip(s))
         ELSE <<Head(s)>> \o CollapseWhitespace(Tail(s))

\* The lines a text file holding `text` yields to `for line in f`: the pieces
\* between line breaks (each line's own trailing "\n" is removed by the
\* strip() that load_added_events applies to it).
RECURSIVE SplitLines(_)
SplitLines(s) ==
    LET nl == find(s, <<"\n">>)
    IN  IF nl = 0 THEN {s}
        ELSE {Slice(s, 1, nl - 1)} \cup SplitLines(Slice(s, nl + 1, Len(s)))

\* The content of a text file.  The order in which save_added_events writes
\* the identifiers is the iteration order of a Python set, which load_added_events
\* does not depend on; the content is therefore held as the set of its lines
\* that end in "\n" (whole, each without its "\n") and the text after the last
\* "\n" (tail, empty when the text ends in "\n" or is empty).
EmptyFile == [whole |-> {}, tail |-> <<>>]

\* The content a text has.
RECURSIVE SplitText(_)
SplitText(text) ==
    LET nl == find(text, <<"\n">>)
    IN  IF nl = 0 THEN [whole |-> {}, tail |-> text]
        ELSE LET rest == SplitText(Slice(text, nl + 1, Len(text)))
             IN  [whole |-> {Slice(text, 1, nl - 1)} \cup rest.whole,
                  tail  |-> rest.tail]

\* The lines `for line in f` yields for a content (without their "\n").
Lines(content) ==
    content.whole \cup (IF content.tail = <<>> THEN {} ELSE {content.tail})

\* The orders in which the elements of a set can be iterated.
Orders(S) ==
    {o \in [1..Cardinality(S) -> S] :
        \A i, j \in 1..Cardinality(S) : o[i] = o[j] => i = j}

\* The text f.write(f"{event_id}\n") produces for a sequence of strings.
RECURSIVE TextOf(_)
TextOf(order) ==
    IF Len(order) = 0 THEN <<>>
    ELSE order[1] \o <<"\n">> \o TextOf([i \in 1..(Len(order) - 1) |-> order[i + 1]])

\* The texts a content can be the content of.
FileTexts(content) == {TextOf(o) \o content.tail : o \in Orders(content.whole)}

\* Writing `new` at offset 0 of a file that holds `old`.
Overlay(new, old) == new \o SubSeq(old, Len(new) + 1, Len(old))

\* The content save_added_events leaves when it writes the whole set: the
\* same for every order.
Written(ids) == [whole |-> UNION {SplitLines(event_id) : event_id \in ids},
                 tail  |-> <<>>]

\* The limit on the size of a file that is in force (RLIMIT_FSIZE, a quota):
\* none, or a number of bytes.  A write that would pass it stops there and
\* raises OSError.
FileSizeLimits == {10, 15}
NoLimit == [limited |-> FALSE]
Limits == {NoLimit} \cup {[limited |-> TRUE, bytes |-> n] : n \in FileSizeLimits}

\* Whether a file of `size` bytes can be written under a limit.
Within(size, limit) == IF limit.limited THEN size <= limit.bytes ELSE TRUE

\* The numbers of bytes of a text of `size` bytes that a failing write can
\* leave in the file: none, as many as the limit allows, and all but the last
\* "\n" (and every whole number of lines, see StopPoints and StoppedWrites).
StopSizes(size, limit) ==
    {n \in {0, size - 1} \cup (IF limit.limited THEN {limit.bytes} ELSE {}) :
        0 <= n /\ n < size /\ Within(n, limit)}

\* The same for a given text.
StopPoints(text, limit) ==
    StopSizes(Len(text), limit)
    \cup {n \in 1..(Len(text) - 1) : text[n] = "\n" /\ Within(n, limit)}

\* The number of bytes save_added_events writes for a set of identifiers.
RECURSIVE TextSize(_)
TextSize(ids) ==
    IF ids = {} THEN 0
    ELSE LET event_id == CHOOSE x \in ids : TRUE
         IN  Len(event_id) + 1 + TextSize(ids \ {event_id})

\* The contents save_added_events can leave in a truncated file when the
\* write of the identifiers stops short: for any order of the set, the
\* identifiers written whole (before) and the first c characters of the next
\* one, where the bytes written are a number of lines (c = 0) or a number of
\* StopSizes.
StoppedWrites(ids, limit) ==
    UNION { UNION { { LET part == SplitText(SubSeq(event_id, 1, c))
                      IN  [whole |-> Written(before).whole \cup part.whole,
                           tail  |-> part.tail] :
                      c \in {k \in 0..Len(event_id) :
                                \/ k = 0 /\ Within(TextSize(before), limit)
                                \/ TextSize(before) + k
                                      \in StopSizes(TextSize(ids), limit)} } :
                    before \in SUBSET (ids \ {event_id}) } :
            event_id \in ids }

\* dict.get(key, default) of an iCalendar component.
Get(comp, key, default) == IF key \in DOMAIN comp THEN comp[key] ELSE default

\* ---------------------------------------------------------- program text
KwLab    == <<"l","a","b","o","r","a","t","o","r","i","e","m","e","d","i","c","i","n">>
KwSign   == <<"s","i","g","n",":">>
KwMoment == <<"m","o","m","e","n","t",":">>
KwZoom   == <<"z","o","o","m">>
KwZoomMeeting == <<"z","o","o","m"," ","m","e","e","t","i","n","g">>
KwZoomSp == <<"z","o","o","m"," ">>
ZoomPrefix == <<"Z","o","o","m"," ">>
Excl1 == <<"B","M","A","1","5","2">>
Excl2 == <<"[","B","M","A","0","5","2"," ","H","T","2","4","]">>
Excl3 == <<"[","B","M","A","2","0","1"," ","V","T","2","5","]">>

\* ---------------------------------------------------------- dates, times
Digits == <<"0","1","2","3","4","5","6","7","8","9">>
TwoDigits(n) == <<Digits[(n \div 10) + 1], Digits[(n % 10) + 1]>>

\* isinstance(dt, datetime.datetime)
IsDateTime(dt) == "hour" \in DOMAIN dt

\* datetime.date(): the calendar date of a date-time.
DateOf(dt) == [day |-> dt.day]

\* str(date) is "2025-03-DD"; str(datetime) is "2025-03-DD HH:MM:00".
StrDate(dt) == <<"2","0","2","5","-","0","3","-">> \o TwoDigits(dt.day)
Str(dt) ==
    IF IsDateTime(dt)
    THEN StrDate(dt) \o <<" ">> \o TwoDigits(dt.hour) \o <<":">>
         \o TwoDigits(dt.minute) \o <<":","0","0">>
    ELSE StrDate(dt)

\* datetime.datetime.combine(date_obj, datetime.time(h, m))
Combine(d, h, m) == [day |-> d.day, hour |-> h, minute |-> m]

\* dt + datetime.timedelta(hours=1), for the hours the model uses (< 23).
PlusOneHour(dt) == [dt EXCEPT !.hour = dt.hour + 1]

\* ----------------------------------------------------------- pure helpers
\* clean_text
clean_text(text) == lower(strip(CollapseWhitespace(text)))

\* re.search(r'(sign:|moment:)', sub).start(): position of the leftmost
\* occurrence of either delimiter, 0 when neither occurs.
DelimiterStart(sub) ==
    LET a == find(sub, KwSign)
        b == find(sub, KwMoment)
    IN  IF a = 0 THEN b
        ELSE IF b = 0 THEN a
        ELSE IF a <= b THEN a ELSE b

\* extract_lecture_title
extract_lecture_title(summary) ==
    LET summary_clean == clean_text(summary)
        idx == find(summary_clean, KwLab)
    IN  IF idx # 0
        THEN LET sub == Slice(summary_clean, idx, Len(summary_clean))
                 m   == DelimiterStart(sub)
             IN  IF m # 0 THEN strip(Slice(sub, 1, m - 1)) ELSE strip(sub)
        ELSE strip(summary)

\* ScanSchema without the comparison of the two calendar dates.
RECURSIVE ScanSchemaAnyDate(_, _, _, _)
ScanSchemaAnyDate(user_date, user_title, schema_events, i) ==
    IF i > Len(schema_events) THEN [kind |-> "None"]
    ELSE LET se == schema_events[i]
         IN  IF "dtstart" \notin DOMAIN se THEN [kind |-> "raise"]
             ELSE IF ~IsDateTime(se.dtstart)
                  THEN ScanSchemaAnyDate(user_date, user_title, schema_events, i + 1)
             ELSE LET schema_title ==
                          extract_lecture_title(Get(se, "summary", <<>>))
                  IN  IF In(user_title, schema_title)
                         \/ In(schema_title, user_title)
                      THEN IF "dtend" \notin DOMAIN se
                           THEN [kind |-> "raise"]
                           ELSE [kind |-> "times", dtstart |-> se.dtstart,
                                 dtend |-> se.dtend]
                      ELSE ScanSchemaAnyDate(user_date, user_title,
                                             schema_events, i + 1)

\* The scan of find_schema_times over schema_events from position i on.
\* The result is tagged: "None", "times" (with the pair dtstart, dtend that
\* is returned), or "raise" when .dt is read from a property the component
\* lacks (AttributeError on None).
RECURSIVE ScanSchema(_, _, _, _)
ScanSchema(user_date, user_title, schema_events, i) ==
    IF i > Len(schema_events) THEN [kind |-> "None"]
    ELSE LET se == schema_events[i]
         IN  IF "dtstart" \notin DOMAIN se THEN [kind |-> "raise"]
             ELSE IF ~IsDateTime(se.dtstart)
                  THEN ScanSchema(user_date, user_title, schema_events, i + 1)
             ELSE IF DateOf(se.dtstart) = user_date
                  THEN LET schema_title ==
                               extract_lecture_title(Get(se, "summary", <<>>))
                       IN  IF In(user_title, schema_title)
                              \/ In(schema_title, user_title)
                           THEN IF "dtend" \notin DOMAIN se
                                THEN [kind |-> "raise"]
                                ELSE [kind |-> "times", dtstart |-> se.dtstart,
                                      dtend |-> se.dtend]
                           ELSE ScanSchema(user_date, user_title,
                                           schema_events, i + 1)
             ELSE ScanSchema(user_date, user_title, schema_events, i + 1)

\* find_schema_times
find_schema_times(user_event, schema_events) ==
    IF "dtstart" \notin DOMAIN user_event THEN [kind |-> "None"]
    ELSE LET user_date  == user_event.dtstart
             user_title == extract_lecture_title(Get(user_event, "summary", <<>>))
         IN  ScanSchema(user_date, user_title, schema_events, 1)

\* adjust_zoom_title testing the title for "zoom " without lowering it.
AdjustZoomTitleCaseSensitive(title, event) ==
    LET loc  == Get(event, "location", <<>>)
        desc == Get(event, "description", <<>>)
    IN  IF (In(KwZoom, lower(loc)) \/ In(KwZoomMeeting, lower(desc)))
           /\ ~startswith(title, KwZoomSp)
        THEN ZoomPrefix \o title
        ELSE title

\* adjust_zoom_title
adjust_zoom_title(title, event) ==
    LET loc  == Get(event, "location", <<>>)
        desc == Get(event, "description", <<>>)
    IN  IF (In(KwZoom, lower(loc)) \/ In(KwZoomMeeting, lower(desc)))
           /\ ~startswith(lower(title), KwZoomSp)
        THEN ZoomPrefix \o title
        ELSE title

\* generate_event_id
generate_event_id(event) ==
    LET summary     == Get(event, "summary", <<>>)
        dtstart_str == IF "dtstart" \in DOMAIN event
                       THEN Str(event.dtstart) ELSE <<>>
    IN  summary \o <<"-">> \o dtstart_str

\* load_added_events: the set read back from the tracking file, every line
\* of it stripped.
load_added_events(exists, content) ==
    IF ~exists THEN {}
    ELSE {strip(line) : line \in Lines(content)}

\* The exclusion filter with two of its three codes forgotten.
IsExcludedFirstCodeOnly(summary) == In(Excl1, summary)

\* The exclusion filter of the loop (line 142).
IsExcluded(summary) ==
    In(Excl1, summary) \/ In(Excl2, summary) \/ In(Excl3, summary)

\* The checks that make the loop `continue` before any work (lines 134-148).
IsSkipped(comp) ==
    IF comp.name # "VEVENT" THEN TRUE
    ELSE IF "summary" \notin DOMAIN comp THEN TRUE
    ELSE IF comp.summary = <<>> THEN TRUE
    ELSE IF IsExcluded(comp.summary) THEN TRUE
    ELSE "dtstart" \notin DOMAIN comp

\* ResolveTimes with the fallback left as the bare date of the component.
ResolveTimesBareFallback(comp, schema_events) ==
    IF IsDateTime(comp.dtstart)
    THEN [kind |-> "times", dtstart |-> comp.dtstart,
          dtend |-> IF "dtend" \in DOMAIN comp THEN comp.dtend
                    ELSE PlusOneHour(comp.dtstart)]
    ELSE LET times == find_schema_times(comp, schema_events)
         IN  IF times.kind = "None"
             THEN [kind |-> "times", dtstart |-> comp.dtstart,
                   dtend |-> comp.dtstart]
             ELSE times

\* ResolveTimes giving every date-only component the fallback times.
ResolveTimesIgnoringMatch(comp, schema_events) ==
    IF IsDateTime(comp.dtstart)
    THEN [kind |-> "times", dtstart |-> comp.dtstart,
          dtend |-> IF "dtend" \in DOMAIN comp THEN comp.dtend
                    ELSE PlusOneHour(comp.dtstart)]
    ELSE [kind |-> "times",
          dtstart |-> Combine(comp.dtstart, 23, 0),
          dtend   |-> Combine(comp.dtstart, 23, 59)]

\* The resolved start and end of a component that is not skipped
\* (lines 150-161), tagged "times", or "raise" when find_schema_times raises.
ResolveTimes(comp, schema_events) ==
    IF IsDateTime(comp.dtstart)
    THEN [kind |-> "times", dtstart |-> comp.dtstart,
          dtend |-> IF "dtend" \in DOMAIN comp THEN comp.dtend
                    ELSE PlusOneHour(comp.dtstart)]
    ELSE LET times == find_schema_times(comp, schema_events)
         IN  IF times.kind = "None"
             THEN [kind |-> "times",
                   dtstart |-> Combine(comp.dtstart, 23, 0),
                   dtend   |-> Combine(comp.dtstart, 23, 59)]
             ELSE times

\* The arguments of api.add_task for a component (lines 163-172).
TaskFor(comp, times) ==
    [content     |-> adjust_zoom_title(extract_lecture_title(comp.summary), comp),
     due         |-> times.dtstart,
     description |-> Get(comp, "location", <<>>) \o <<"\n">>
                     \o Get(comp, "description", <<>>)]

\* ------------------------------------------------------------ feed data
\* The texts, components and feeds the passes are run on.
SumQuiz == <<"Q","u","i","z">>
SumQuizWs == <<" ","Q","u","i","z">>
SumLab == <<"X"," ","L","a","b","o","r","a","t","o","r","i","e","m","e","d","i","c","i","n"," ","T","3"," ","s","i","g","n",":"," ","a">>
SumExclA == <<"B","M","A","1","5","2"," ","Q","u","i","z">>
SumExclB == <<"Q","u","i","z"," ","[","B","M","A","0","5","2"," ","H","T","2","4","]">>
SumExclC == <<"L","a","b","o","r","a","t","o","r","i","e","m","e","d","i","c","i","n"," ","T","3"," ","[","B","M","A","2","0","1"," ","V","T","2","5","]">>
SumRefLab == <<"L","a","b","o","r","a","t","o","r","i","e","m","e","d","i","c","i","n"," ","T","3">>
TxtZoomRoom == <<"Z","o","o","m"," ","R","o","o","m"," ","4">>
TxtNotes == <<"n","o","t","e","s">>

Vcal == [name |-> "VCALENDAR"]

\* Personal components.
PLab == [name |-> "VEVENT", summary |-> SumLab, dtstart |-> [day |-> 10],
         location |-> TxtZoomRoom]
PQuiz == [name |-> "VEVENT", summary |-> SumQuiz, dtstart |-> [day |-> 11]]
PQuizWs == [name |-> "VEVENT", summary |-> SumQuizWs, dtstart |-> [day |-> 11],
            description |-> TxtNotes]
PTimed == [name |-> "VEVENT", summary |-> SumQuiz,
           dtstart |-> [day |-> 10, hour |-> 9, minute |-> 0]]
PExclA == [name |-> "VEVENT", summary |-> SumExclA, dtstart |-> [day |-> 11],
           location |-> TxtZoomRoom]
PExclB == [name |-> "VEVENT", summary |-> SumExclB,
           dtstart |-> [day |-> 10, hour |-> 9, minute |-> 0],
           dtend |-> [day |-> 10, hour |-> 10, minute |-> 0],
           description |-> TxtNotes]
PExclC == [name |-> "VEVENT", summary |-> SumExclC, dtstart |-> [day |-> 10]]
PNoSummary == [name |-> "VEVENT", dtstart |-> [day |-> 10]]
PEmptySummary == [name |-> "VEVENT", summary |-> <<>>, dtstart |-> [day |-> 10]]
PNoStart == [name |-> "VEVENT", summary |-> SumQuiz]

\* Reference (schema) components.
RLab9 == [name |-> "VEVENT", summary |-> SumRefLab,
          dtstart |-> [day |-> 10, hour |-> 9, minute |-> 0],
          dtend |-> [day |-> 10, hour |-> 11, minute |-> 0]]
RLab10 == [name |-> "VEVENT", summary |-> SumRefLab,
           dtstart |-> [day |-> 10, hour |-> 10, minute |-> 0],
           dtend |-> [day |-> 10, hour |-> 12, minute |-> 0]]
RLabDateOnly == [name |-> "VEVENT", summary |-> SumRefLab,
                 dtstart |-> [day |-> 10], dtend |-> [day |-> 11]]
RLabNoEnd == [name |-> "VEVENT", summary |-> SumRefLab,
              dtstart |-> [day |-> 10, hour |-> 9, minute |-> 0]]
RQuiz13 == [name |-> "VEVENT", summary |-> SumQuiz,
            dtstart |-> [day |-> 11, hour |-> 13, minute |-> 0],
            dtend |-> [day |-> 11, hour |-> 14, minute |-> 0]]
RNoSummary == [name |-> "VEVENT",
               dtstart |-> [day |-> 11, hour |-> 8, minute |-> 0],
               dtend |-> [day |-> 11, hour |-> 9, minute |-> 0]]
RNoStart == [name |-> "VEVENT", summary |-> SumRefLab]

\* What Calendar.walk() yields for each feed the personal URL can serve.
PersonalFeeds ==
    { <<Vcal, PLab, PLab>>,
      <<Vcal, PQuizWs, PQuiz>>,
      <<Vcal, PTimed, PLab, PQuiz>>,
      <<Vcal, PExclA, PExclB, PExclC, PNoSummary, PEmptySummary, PNoStart, PTimed>> }

\* What Calendar.walk() yields for each feed the reference URL can serve.
ReferenceFeeds ==
    { <<Vcal>>,
      <<Vcal, RLab9, RQuiz13>>,
      <<Vcal, RLabDateOnly, RLab10>>,
      <<Vcal, RLabNoEnd>>,
      <<Vcal, RNoSummary, RNoStart>> }

\* Every personal component of every feed.
PersonalComponents ==
    UNION { {feed[i] : i \in 1..Len(feed)} : feed \in PersonalFeeds }

\* ----------------------------------------------------- helper probe data
\* The arguments the pure helpers are probed with.
SumQuizLower == <<"q","u","i","z">>
SumBlank == <<" ">>
SumLabLoud == <<"L","A","B","O","R","A","T","O","R","I","E","M","E","D","I","C","I","N"," "," "," ","T","3">>

PQuizLower == [PQuiz EXCEPT !.summary = SumQuizLower]
PBlank == [PQuiz EXCEPT !.summary = SumBlank]

RLab11 == [name |-> "VEVENT", summary |-> SumRefLab,
           dtstart |-> [day |-> 11, hour |-> 9, minute |-> 0],
           dtend |-> [day |-> 11, hour |-> 11, minute |-> 0]]
RLabLoud9 == [RLab9 EXCEPT !.summary = SumLabLoud]
RQuizLower13 == [RQuiz13 EXCEPT !.summary = SumQuizLower]

\* The date-only personal events the schedule matcher is probed with.
MatcherUsers == {PLab, PQuiz, PQuizLower, PBlank}

\* The reference events the probed reference feeds are made of.
MatcherEvents ==
    {RLab9, RLab11, RLabLoud9, RLabDateOnly, RLabNoEnd, RQuiz13, RQuizLower13,
     RNoSummary, RNoStart}

\* Every reference feed of at most MaxSchemaLen of those events.
MatcherFeeds ==
    UNION { [1..n -> MatcherEvents] : n \in 0..MaxSchemaLen }

\* Titles and components adjust_zoom_title is probed with.
TitleZoomQuiz == ZoomPrefix \o SumQuiz
TitleLowerZoomQuiz == KwZoomSp \o SumQuiz
TitleZoomquiz == <<"Z","o","o","m","q","u","i","z">>
TxtZoomMeeting == <<"J","o","i","n"," ","Z","o","o","m"," ","M","e","e","t","i","n","g">>
TxtZoomOnly == <<"z","o","o","m">>
ZoomTitles ==
    {<<>>, SumQuiz, TitleZoomQuiz, TitleLowerZoomQuiz, TitleZoomquiz, ZoomPrefix}
PMeeting == [name |-> "VEVENT", summary |-> SumQuiz, dtstart |-> [day |-> 11],
             description |-> TxtZoomMeeting]
PZoomNoted == [name |-> "VEVENT", summary |-> SumQuiz, dtstart |-> [day |-> 11],
               description |-> TxtZoomOnly]
ZoomEvents == {PLab, PQuiz, PMeeting, PZoomNoted}

\* -------------------------------------------------------------- the state
VARIABLES
    pc,                 \* "idle": no pass running; "loop": inside the for loop
    outcome,            \* how the last pass ended
    passes,             \* passes started so far
    user_events,        \* the components user_cal.walk() yields in this pass
    schema_events,      \* line 129
    pos,                \* position in user_events of the next component
    added_events,       \* line 130
    newly_added_events, \* line 131
    file_exists,        \* os.path.exists(ADDED_EVENTS_FILE)
    file,               \* the content of ADDED_EVENTS_FILE
    calls,              \* the api.add_task calls of this pass, in order
    fetched,            \* what the two load_calendar calls of this pass gave
    store_before,       \* the tracking file as this pass found it
    tracked,            \* whether prev is being recorded (fixed by Init)
    fsize_limit,        \* the file size limit in force (fixed by Init)
    prev,               \* the pass before this one: its feeds and its calls
    created,            \* identifiers with a successful api.add_task so far
    recreated,          \* identifiers with two or more of them
    clean,              \* every pass so far ran to completion, store I/O included
    probe,              \* a helper function and the arguments it is applied to
    answer,             \* what the helper returned for probe
    run_pc,             \* two overlapping passes: where each of them is
    run_pos,            \*   its position in user_events
    run_added,          \*   its added_events
    run_newly           \*   its newly_added_events

vars == <<pc, outcome, passes, user_events, schema_events, pos, added_events,
          newly_added_events, file_exists, file, calls, fetched, store_before,
          tracked, fsize_limit, prev, created, recreated, clean, probe, answer, run_pc,
          run_pos, run_added, run_newly>>

store == <<file_exists, file>>
history == <<created, recreated>>
\* What a single pass never changes: the switch of the history variable, the
\* helper probe and the state of the overlapping passes.
fixed == <<tracked, fsize_limit, probe, answer, run_pc, run_pos, run_added, run_newly>>
ghosts == <<store_before, fixed, prev>>

NoPass == [user |-> <<>>, schema |-> <<>>, outcome |-> "none", calls |-> <<>>]

InitPass ==
    /\ pc = "idle"
    /\ outcome = "none"
    /\ passes = 0
    /\ user_events = <<>>
    /\ schema_events = <<>>
    /\ pos = 1
    /\ added_events = {}
    /\ newly_added_events = {}
    /\ file_exists = FALSE
    /\ file = EmptyFile
    /\ calls = <<>>
    /\ fetched = [user |-> "none", schema |-> "none"]
    /\ store_before = <<FALSE, EmptyFile>>
    /\ prev = NoPass
    /\ created = {}
    /\ recreated = {}
    /\ clean = TRUE

\* The two invocations of the script that overlap in SpecConcurrent.
Runs == {1, 2}

\* No helper is being probed.
NoProbe ==
    /\ probe = [fn |-> "none"]
    /\ answer = [kind |-> "none"]

\* No overlapping passes are running.
NoRuns ==
    /\ run_pc = [r \in Runs |-> "off"]
    /\ run_pos = [r \in Runs |-> 1]
    /\ run_added = [r \in Runs |-> {}]
    /\ run_newly = [r \in Runs |-> {}]

\* The program starts with no tracking file.  prev is a history variable; it
\* is recorded in the behaviours of SpecTracked only.
Init ==
    InitPass /\ tracked = FALSE /\ fsize_limit \in Limits /\ NoProbe /\ NoRuns
InitTracked ==
    InitPass /\ tracked = TRUE /\ fsize_limit \in Limits /\ NoProbe /\ NoRuns

\* The identifiers the tracking file holds, as the next pass will read them.
Stored == load_added_events(file_exists, file)

\* What is remembered of the pass that is being replaced by a new one.
LastPass ==
    [user |-> user_events, schema |-> schema_events, outcome |-> outcome,
     calls |-> calls]

\* EndEarly with the tracking file rewritten from the (empty) set of the pass
\* that never started its loop.
EndEarlyRewriting(how, user_result, schema_result) ==
    /\ pc = "idle"
    /\ passes < MaxPasses
    /\ passes' = passes + 1
    /\ prev' = (IF tracked THEN LastPass ELSE prev)
    /\ store_before' = store
    /\ UNCHANGED fixed
    /\ outcome' = how
    /\ fetched' = [user |-> user_result, schema |-> schema_result]
    /\ user_events' = <<>>
    /\ schema_events' = <<>>
    /\ pos' = 1
    /\ added_events' = {}
    /\ newly_added_events' = {}
    /\ calls' = <<>>
    /\ clean' = FALSE
    /\ file_exists' = TRUE
    /\ file' = EmptyFile
    /\ UNCHANGED <<pc, history>>

\* A pass that ends before the loop: nothing is read or written.
EndEarly(how, user_result, schema_result) ==
    /\ pc = "idle"
    /\ passes < MaxPasses
    /\ passes' = passes + 1
    /\ prev' = (IF tracked THEN LastPass ELSE prev)
    /\ store_before' = store
    /\ UNCHANGED fixed
    /\ outcome' = how
    /\ fetched' = [user |-> user_result, schema |-> schema_result]
    /\ user_events' = <<>>
    /\ schema_events' = <<>>
    /\ pos' = 1
    /\ added_events' = {}
    /\ newly_added_events' = {}
    /\ calls' = <<>>
    /\ clean' = FALSE
    /\ UNCHANGED <<pc, store, history>>

\* api.sync() raises: lines 116-120.
ApiSyncFails == EndEarly("api_failed", "none", "none")

\* load_calendar returns None for a feed (the request failed): lines 24-26,
\* 125-127.
FetchFails ==
    \E user_result, schema_result \in {"ok", "unavailable"} :
        /\ "unavailable" \in {user_result, schema_result}
        /\ EndEarly("fetch_failed", user_result, schema_result)

\* Calendar.from_ical raises on a malformed feed; load_calendar does not catch
\* it and the pass ends with the exception (a malformed personal feed ends it
\* before the reference feed is requested).
ParseFails ==
    \/ EndEarly("raised", "malformed", "none")
    \/ \E user_result \in {"ok", "unavailable"} :
           EndEarly("raised", user_result, "malformed")

\* Both feeds load but reading the tracking file raises: line 130.
StoreReadFails ==
    /\ file_exists
    /\ EndEarly("raised", "ok", "ok")

\* Lines 122-131: both feeds load, the tracking file is read, the loop starts.
BeginPass ==
    \E user_cal \in PersonalFeeds, schema_cal \in ReferenceFeeds :
        /\ pc = "idle"
        /\ passes < MaxPasses
        /\ passes' = passes + 1
        /\ prev' = (IF tracked THEN LastPass ELSE prev)
        /\ store_before' = store
        /\ UNCHANGED fixed
        /\ pc' = "loop"
        /\ outcome' = "running"
        /\ fetched' = [user |-> "ok", schema |-> "ok"]
        /\ user_events' = user_cal
        /\ schema_events' = SelectSeq(schema_cal, LAMBDA comp : comp.name = "VEVENT")
        /\ pos' = 1
        /\ added_events' = load_added_events(file_exists, file)
        /\ newly_added_events' = {}
        /\ calls' = <<>>
        /\ UNCHANGED <<store, history, clean>>

InLoop == pc = "loop" /\ pos <= Len(user_events)

\* The loop body reaches `continue` before doing anything: lines 134-148.
SkipComponent ==
    /\ InLoop
    /\ IsSkipped(user_events[pos])
    /\ pos' = pos + 1
    /\ UNCHANGED <<pc, outcome, passes, user_events, schema_events, added_events,
                   newly_added_events, store, calls, fetched, ghosts, history, clean>>

\* find_schema_times raises inside the loop; nothing catches it, the pass ends
\* without reaching lines 181-182.
ResolveRaises ==
    /\ InLoop
    /\ ~IsSkipped(user_events[pos])
    /\ ResolveTimes(user_events[pos], schema_events).kind = "raise"
    /\ pc' = "idle"
    /\ outcome' = "raised"
    /\ clean' = FALSE
    /\ UNCHANGED <<passes, user_events, schema_events, pos, added_events,
                   newly_added_events, store, calls, fetched, ghosts, history>>

\* The component is resolved and its identifier computed: lines 150-164.
Resolved(comp) ==
    IF IsSkipped(comp) THEN FALSE
    ELSE ResolveTimes(comp, schema_events).kind = "times"

\* Lines 177-178: the identifier is in added_events.
AlreadyAdded ==
    /\ InLoop
    /\ Resolved(user_events[pos])
    /\ generate_event_id(user_events[pos]) \in added_events
    /\ pos' = pos + 1
    /\ UNCHANGED <<pc, outcome, passes, user_events, schema_events, added_events,
                   newly_added_events, store, calls, fetched, ghosts, history, clean>>

\* The record of one api.add_task call.
Call(comp, ok) ==
    [event    |-> comp,
     event_id |-> generate_event_id(comp),
     task     |-> TaskFor(comp, ResolveTimes(comp, schema_events)),
     ok       |-> ok]

\* Lines 166-174: api.add_task returns a task.
AddTaskSucceeds ==
    /\ InLoop
    /\ Resolved(user_events[pos])
    /\ LET event_id == generate_event_id(user_events[pos])
       IN  /\ event_id \notin added_events
           /\ newly_added_events' = newly_added_events \cup {event_id}
           /\ calls' = Append(calls, Call(user_events[pos], TRUE))
           /\ created' = created \cup {event_id}
           /\ recreated' = IF event_id \in created
                           THEN recreated \cup {event_id} ELSE recreated
    /\ pos' = pos + 1
    /\ UNCHANGED <<pc, outcome, passes, user_events, schema_events, added_events,
                   store, fetched, ghosts, clean>>

\* Lines 166-176: api.add_task raises and the exception is caught.
AddTaskFails ==
    /\ InLoop
    /\ Resolved(user_events[pos])
    /\ generate_event_id(user_events[pos]) \notin added_events
    /\ calls' = Append(calls, Call(user_events[pos], FALSE))
    /\ pos' = pos + 1
    /\ UNCHANGED <<pc, outcome, passes, user_events, schema_events, added_events,
                   newly_added_events, store, fetched, ghosts, history, clean>>

AfterLoop == pc = "loop" /\ pos > Len(user_events)

\* Lines 180-183: the loop is over, the set is merged and written out (the
\* text is within the file size limit).
SaveSucceeds ==
    /\ AfterLoop
    /\ Within(TextSize(added_events \cup newly_added_events), fsize_limit)
    /\ added_events' = added_events \cup newly_added_events
    /\ file_exists' = TRUE
    /\ file' = Written(added_events \cup newly_added_events)
    /\ pc' = "idle"
    /\ outcome' = "completed"
    /\ UNCHANGED <<passes, user_events, schema_events, pos, newly_added_events,
                   calls, fetched, ghosts, history, clean>>

\* SaveFails with the exception of save_added_events caught and the pass
\* ending as if the file had been written.
SaveFailsSwallowed ==
    /\ AfterLoop
    /\ added_events' = added_events \cup newly_added_events
    /\ \/ UNCHANGED store
       \/ /\ file_exists' = TRUE
          /\ file' \in StoppedWrites(added_events \cup newly_added_events,
                                   fsize_limit)
    /\ pc' = "idle"
    /\ outcome' = "completed"
    /\ clean' = FALSE
    /\ UNCHANGED <<passes, user_events, schema_events, pos, newly_added_events,
                   calls, fetched, ghosts, history>>

\* Lines 180-182 when save_added_events raises.  open(..., 'w') either fails
\* and leaves the file as it was, or has truncated the file and the write
\* stops short.
SaveFails ==
    /\ AfterLoop
    /\ added_events' = added_events \cup newly_added_events
    /\ \/ UNCHANGED store
       \/ /\ file_exists' = TRUE
          /\ file' \in StoppedWrites(added_events \cup newly_added_events,
                                   fsize_limit)
    /\ pc' = "idle"
    /\ outcome' = "raised"
    /\ clean' = FALSE
    /\ UNCHANGED <<passes, user_events, schema_events, pos, newly_added_events,
                   calls, fetched, ghosts, history>>

Next ==
    \/ ApiSyncFails
    \/ FetchFails
    \/ ParseFails
    \/ StoreReadFails
    \/ BeginPass
    \/ SkipComponent
    \/ ResolveRaises
    \/ AlreadyAdded
    \/ AddTaskSucceeds
    \/ AddTaskFails
    \/ SaveSucceeds
    \/ SaveFails

Spec == Init /\ [][Next]_vars

\* The same program with the previous pass recorded in prev.
SpecTracked == InitTracked /\ [][Next]_vars

\* ---------------------------------------------------- overlapping passes
\* Two invocations of the script run at the same time.  Both have fetched the
\* same two feeds; they share the tracking file and the Todoist account, and
\* each has its own added_events (run_added), newly_added_events (run_newly)
\* and position in the loop (run_pos).
seqVars == <<pc, outcome, passes, pos, added_events, newly_added_events,
             fetched, store_before, tracked, fsize_limit, prev, clean, probe, answer>>

InitConcurrent ==
    /\ pc = "idle"
    /\ outcome = "none"
    /\ passes = 0
    /\ user_events \in PersonalFeeds
    /\ schema_events \in
          {SelectSeq(schema_cal, LAMBDA comp : comp.name = "VEVENT") :
              schema_cal \in ReferenceFeeds}
    /\ pos = 1
    /\ added_events = {}
    /\ newly_added_events = {}
    /\ file_exists = FALSE
    /\ file = EmptyFile
    /\ calls = <<>>
    /\ fetched = [user |-> "ok", schema |-> "ok"]
    /\ store_before = <<FALSE, EmptyFile>>
    /\ prev = NoPass
    /\ created = {}
    /\ recreated = {}
    /\ clean = TRUE
    /\ tracked = FALSE
    /\ fsize_limit \in Limits
    /\ NoProbe
    /\ run_pc = [r \in Runs |-> "start"]
    /\ run_pos = [r \in Runs |-> 1]
    /\ run_added = [r \in Runs |-> {}]
    /\ run_newly = [r \in Runs |-> {}]

\* Lines 130-131 in run r: the tracking file is read, the loop starts.
RunBegin(r) ==
    /\ run_pc[r] = "start"
    /\ run_pc' = [run_pc EXCEPT ![r] = "loop"]
    /\ run_added' = [run_added EXCEPT ![r] = load_added_events(file_exists, file)]
    /\ UNCHANGED <<seqVars, user_events, schema_events, store, calls, history,
                   run_pos, run_newly>>

\* Line 130 in run r when reading the tracking file raises: the run ends
\* before its loop.
RunStoreReadFails(r) ==
    /\ run_pc[r] = "start"
    /\ file_exists
    /\ run_pc' = [run_pc EXCEPT ![r] = "raised"]
    /\ UNCHANGED <<seqVars, user_events, schema_events, store, calls, history,
                   run_pos, run_added, run_newly>>

RunInLoop(r) == run_pc[r] = "loop" /\ run_pos[r] <= Len(user_events)

\* Lines 134-148 in run r: the component is passed over.
RunSkip(r) ==
    /\ RunInLoop(r)
    /\ IsSkipped(user_events[run_pos[r]])
    /\ run_pos' = [run_pos EXCEPT ![r] = @ + 1]
    /\ UNCHANGED <<seqVars, user_events, schema_events, store, calls, history,
                   run_pc, run_added, run_newly>>

\* find_schema_times raises in run r, which ends there.
RunResolveRaises(r) ==
    /\ RunInLoop(r)
    /\ ~IsSkipped(user_events[run_pos[r]])
    /\ ResolveTimes(user_events[run_pos[r]], schema_events).kind = "raise"
    /\ run_pc' = [run_pc EXCEPT ![r] = "raised"]
    /\ UNCHANGED <<seqVars, user_events, schema_events, store, calls, history,
                   run_pos, run_added, run_newly>>

\* Line 166 in run r: the identifier is in the set the run read at its start.
RunAlreadyAdded(r) ==
    /\ RunInLoop(r)
    /\ Resolved(user_events[run_pos[r]])
    /\ generate_event_id(user_events[run_pos[r]]) \in run_added[r]
    /\ run_pos' = [run_pos EXCEPT ![r] = @ + 1]
    /\ UNCHANGED <<seqVars, user_events, schema_events, store, calls, history,
                   run_pc, run_added, run_newly>>

\* Lines 166-174 in run r: api.add_task returns a task.
RunAddTaskSucceeds(r) ==
    /\ RunInLoop(r)
    /\ Resolved(user_events[run_pos[r]])
    /\ LET event_id == generate_event_id(user_events[run_pos[r]])
       IN  /\ event_id \notin run_added[r]
           /\ run_newly' = [run_newly EXCEPT ![r] = @ \cup {event_id}]
           /\ calls' = Append(calls, Call(user_events[run_pos[r]], TRUE))
           /\ created' = created \cup {event_id}
           /\ recreated' = IF event_id \in created
                           THEN recreated \cup {event_id} ELSE recreated
    /\ run_pos' = [run_pos EXCEPT ![r] = @ + 1]
    /\ UNCHANGED <<seqVars, user_events, schema_events, store, run_pc, run_added>>

\* Lines 166-176 in run r: api.add_task raises and the exception is caught.
RunAddTaskFails(r) ==
    /\ RunInLoop(r)
    /\ Resolved(user_events[run_pos[r]])
    /\ generate_event_id(user_events[run_pos[r]]) \notin run_added[r]
    /\ calls' = Append(calls, Call(user_events[run_pos[r]], FALSE))
    /\ run_pos' = [run_pos EXCEPT ![r] = @ + 1]
    /\ UNCHANGED <<seqVars, user_events, schema_events, store, history,
                   run_pc, run_added, run_newly>>

RunAfterLoop(r) == run_pc[r] = "loop" /\ run_pos[r] > Len(user_events)

\* Lines 181-182 in run r: the set is merged and save_added_events opens the
\* file for writing, which empties it (line 99).
RunOpen(r) ==
    /\ RunAfterLoop(r)
    /\ run_added' = [run_added EXCEPT ![r] = @ \cup run_newly[r]]
    /\ file_exists' = TRUE
    /\ file' = EmptyFile
    /\ run_pc' = [run_pc EXCEPT ![r] = "saving"]
    /\ UNCHANGED <<seqVars, user_events, schema_events, calls, history,
                   run_pos, run_newly>>

\* Line 99 in run r when open raises: the file is left as it was.
RunOpenFails(r) ==
    /\ RunAfterLoop(r)
    /\ run_added' = [run_added EXCEPT ![r] = @ \cup run_newly[r]]
    /\ run_pc' = [run_pc EXCEPT ![r] = "raised"]
    /\ UNCHANGED <<seqVars, user_events, schema_events, store, calls, history,
                   run_pos, run_newly>>

\* Lines 100-101 and the end of the with block in run r: the buffered lines
\* are written from the start of the file, over what the other run may have
\* written there since run r opened it.
RunWrite(r) ==
    /\ run_pc[r] = "saving"
    /\ Within(TextSize(run_added[r]), fsize_limit)
    /\ \E o \in Orders(run_added[r]) : \E old \in FileTexts(file) :
           file' = SplitText(Overlay(TextOf(o), old))
    /\ run_pc' = [run_pc EXCEPT ![r] = "completed"]
    /\ UNCHANGED <<seqVars, user_events, schema_events, file_exists, calls,
                   history, run_pos, run_added, run_newly>>

\* The same when the write stops short and save_added_events raises.
RunWriteFails(r) ==
    /\ run_pc[r] = "saving"
    /\ \E o \in Orders(run_added[r]) : \E old \in FileTexts(file) :
           \E n \in StopPoints(TextOf(o), fsize_limit) :
               file' = SplitText(Overlay(SubSeq(TextOf(o), 1, n), old))
    /\ run_pc' = [run_pc EXCEPT ![r] = "raised"]
    /\ UNCHANGED <<seqVars, user_events, schema_events, file_exists, calls,
                   history, run_pos, run_added, run_newly>>

NextConcurrent ==
    \/ \E r \in Runs : RunBegin(r)
    \/ \E r \in Runs : RunStoreReadFails(r)
    \/ \E r \in Runs : RunSkip(r)
    \/ \E r \in Runs : RunResolveRaises(r)
    \/ \E r \in Runs : RunAlreadyAdded(r)
    \/ \E r \in Runs : RunAddTaskSucceeds(r)
    \/ \E r \in Runs : RunAddTaskFails(r)
    \/ \E r \in Runs : RunOpen(r)
    \/ \E r \in Runs : RunOpenFails(r)
    \/ \E r \in Runs : RunWrite(r)
    \/ \E r \in Runs : RunWriteFails(r)

\* Two passes over the same feeds whose steps interleave.
SpecConcurrent == InitConcurrent /\ [][NextConcurrent]_vars

\* ------------------------------------------------------ probing helpers
\* The variables of the single pass, which probing a helper leaves alone.
passVars == <<pc, outcome, passes, user_events, schema_events, pos, added_events,
              newly_added_events, file_exists, file, calls, fetched,
              store_before, tracked, fsize_limit, prev, created, recreated, clean>>
runVars == <<run_pc, run_pos, run_added, run_newly>>

\* find_schema_times applied to a date-only personal event and a reference
\* feed.
MatcherProbes ==
    {[fn |-> "find_schema_times", user_event |-> u, schema_events |-> s] :
        u \in MatcherUsers, s \in MatcherFeeds}

\* The time resolution of the loop applied to a date-only personal event.
ResolveProbes ==
    {[fn |-> "ResolveTimes", comp |-> u, schema_events |-> s] :
        u \in MatcherUsers, s \in MatcherFeeds}

\* adjust_zoom_title applied to a title and a personal event.
ZoomProbes ==
    {[fn |-> "adjust_zoom_title", title |-> t, event |-> ev] :
        t \in ZoomTitles, ev \in ZoomEvents}

Probes == MatcherProbes \cup ResolveProbes \cup ZoomProbes

InitHelpers ==
    /\ InitPass
    /\ tracked = FALSE
    /\ fsize_limit = NoLimit
    /\ NoRuns
    /\ probe \in Probes
    /\ answer = [kind |-> "pending"]

\* A call of find_schema_times returns (or raises).
RunMatcher ==
    /\ probe.fn = "find_schema_times"
    /\ answer.kind = "pending"
    /\ answer' = find_schema_times(probe.user_event, probe.schema_events)
    /\ UNCHANGED <<passVars, probe, runVars>>

\* Lines 150-161 for a component that reached them.
RunResolve ==
    /\ probe.fn = "ResolveTimes"
    /\ answer.kind = "pending"
    /\ answer' = ResolveTimes(probe.comp, probe.schema_events)
    /\ UNCHANGED <<passVars, probe, runVars>>

\* A call of adjust_zoom_title returns.
RunZoom ==
    /\ probe.fn = "adjust_zoom_title"
    /\ answer.kind = "pending"
    /\ answer' = [kind |-> "title",
                  title |-> adjust_zoom_title(probe.title, probe.event)]
    /\ UNCHANGED <<passVars, probe, runVars>>

\* adjust_zoom_title is called on its own result, for the same event.
RunZoomAgain ==
    /\ probe.fn = "adjust_zoom_title"
    /\ answer.kind = "title"
    /\ answer' = [kind |-> "again", first |-> answer.title,
                  title |-> adjust_zoom_title(answer.title, probe.event)]
    /\ UNCHANGED <<passVars, probe, runVars>>

NextHelpers ==
    \/ RunMatcher
    \/ RunResolve
    \/ RunZoom
    \/ RunZoomAgain

\* The pure helpers, each applied once to arguments drawn from Probes.
SpecHelpers == InitHelpers /\ [][NextHelpers]_vars

\* ------------------------------------------------------------ properties
\* The identifiers of the calls of cs that succeeded / that raised.
OkIds(cs) == {cs[i].event_id : i \in {j \in 1..Len(cs) : cs[j].ok}}
FailedIds(cs) == {cs[i].event_id : i \in {j \in 1..Len(cs) : ~cs[j].ok}}

\* The identifiers the pass found in the tracking file when it started.
StoredBefore == load_added_events(store_before[1], store_before[2])

\* A summary that contains one of the three exclusion codes.
HasExclusionCode(summary) ==
    \E code \in {Excl1, Excl2, Excl3} : In(code, summary)

\* The personal components whose summary carries an exclusion code.
ExcludedComponents ==
    {comp \in PersonalComponents :
        IF "summary" \in DOMAIN comp THEN HasExclusionCode(comp.summary) ELSE FALSE}

\* C1: while every pass so far ran to completion with its store reads and
\* writes succeeding, no identifier has had more than one successful
\* api.add_task call.
C1_AtMostOneTaskPerIdentifier == clean => recreated = {}

\* C2: a pass over the same two feeds as the pass before it, when that pass
\* completed with every api.add_task call succeeding, makes no api.add_task
\* call.
C2_SecondRunCreatesNothing ==
    ( /\ prev.outcome = "completed"
      /\ FailedIds(prev.calls) = {}
      /\ fetched = [user |-> "ok", schema |-> "ok"]
      /\ user_events = prev.user
      /\ schema_events = prev.schema )
    => calls = <<>>

\* C3: whenever the loop is about to take its next component, the identifier
\* of every api.add_task call that succeeded earlier in the pass is already in
\* the tracking file.
C3_RecordedWhenCreated ==
    pc = "loop" => OkIds(calls) \subseteq Stored

\* C4: the identifiers the tracking file gains during a pass are identifiers
\* whose api.add_task call succeeded in that pass; and an identifier whose
\* call failed (and never succeeded) in the previous pass is passed to
\* api.add_task again by a completed pass over the same personal feed.
C4_StoredOnlyOnSuccess ==
    /\ (Stored \ StoredBefore) \subseteq OkIds(calls)
    /\ ( /\ outcome = "completed"
         /\ user_events = prev.user )
       => (FailedIds(prev.calls) \ OkIds(prev.calls))
              \subseteq (OkIds(calls) \cup FailedIds(calls))

\* C5: a pass in which an api.add_task call failed is not cut short inside
\* the loop: when it is over, it has gone through every later component and
\* reached the final save.
C5_FailureDoesNotAbort ==
    (FailedIds(calls) # {} /\ pc = "idle") => pos > Len(user_events)

\* C6: when either load_calendar call of a pass fails (the request or the
\* parsing), the pass is over, it made no api.add_task call and the tracking
\* file is as the pass found it.
C6_FetchFailureHasNoEffect ==
    ({fetched.user, fetched.schema} \cap {"unavailable", "malformed"} # {})
    => /\ pc = "idle"
       /\ calls = <<>>
       /\ store = store_before

\* C6 witness: a feed fails to load in a pass that found identifiers recorded.
C6_Witness ==
    /\ outcome = "fetch_failed"
    /\ fetched.schema = "unavailable"
    /\ StoredBefore # {}
    /\ Stored = StoredBefore

\* C7: every identifier the pass found in the tracking file is still in it,
\* during the pass and after it, however the pass ends.
C7_NothingLost == StoredBefore \subseteq Stored

\* C8: a date-only personal event whose task was created in the previous,
\* completed pass is not passed to api.add_task again when the reference feed
\* now resolves it to another start.
C8_KeyIgnoresResolvedTime ==
    prev.outcome = "completed" =>
        \A i \in 1..Len(calls), j \in 1..Len(prev.calls) :
            ~ ( /\ prev.calls[j].ok
                /\ calls[i].event_id = prev.calls[j].event_id
                /\ ~IsDateTime(calls[i].event.dtstart)
                /\ calls[i].task.due # prev.calls[j].task.due )

\* C9: no api.add_task call is made for a component whose summary carries an
\* exclusion code, and the identifier of such a component is never in the
\* set being collected nor in the tracking file.
C9_ExcludedNeverProcessed ==
    /\ \A i \in 1..Len(calls) : ~HasExclusionCode(calls[i].event.summary)
    /\ \A comp \in ExcludedComponents :
           generate_event_id(comp) \notin (newly_added_events \cup Stored)

\* C9 witness: a pass went through the feed that holds the three excluded
\* components, created the task of the component after them and saved.
C9_Witness ==
    /\ outcome = "completed"
    /\ \E i \in 1..Len(user_events) : user_events[i] \in ExcludedComponents
    /\ OkIds(calls) # {}
    /\ Stored # {}

\* C10: the due value of every api.add_task call is a date-time.
C10_DueIsDateTime ==
    \A i \in 1..Len(calls) : IsDateTime(calls[i].task.due)

\* C10 witness: one pass made calls on all three paths: the component's own
\* start, a reference component's start and the 23:00 fallback.
C10_Witness ==
    /\ \E i \in 1..Len(calls) : IsDateTime(calls[i].event.dtstart)
    /\ \E i \in 1..Len(calls) :
           /\ ~IsDateTime(calls[i].event.dtstart)
           /\ find_schema_times(calls[i].event, schema_events).kind = "times"
    /\ \E i \in 1..Len(calls) :
           /\ ~IsDateTime(calls[i].event.dtstart)
           /\ find_schema_times(calls[i].event, schema_events).kind = "None"
           /\ calls[i].task.due = Combine(calls[i].event.dtstart, 23, 0)

\* The probe is a finished call of find_schema_times.
Matched == probe.fn = "find_schema_times" /\ answer.kind # "pending"

\* A reference event that the matcher's contract lets match the personal
\* event: a date-time start on the personal event's date, and one core title
\* contained in the other.
Qualifies(user_event, se) ==
    IF "dtstart" \notin DOMAIN se THEN FALSE
    ELSE IF ~IsDateTime(se.dtstart) THEN FALSE
    ELSE IF DateOf(se.dtstart) # user_event.dtstart THEN FALSE
    ELSE LET user_title   == extract_lecture_title(Get(user_event, "summary", <<>>))
             schema_title == extract_lecture_title(Get(se, "summary", <<>>))
         IN  In(user_title, schema_title) \/ In(schema_title, user_title)

\* The positions of the qualifying reference events, and the first of them.
QualifyingAt(user_event, events) ==
    {i \in 1..Len(events) : Qualifies(user_event, events[i])}
FirstQualifying(user_event, events) ==
    CHOOSE i \in QualifyingAt(user_event, events) :
        \A j \in QualifyingAt(user_event, events) : i <= j

\* C11: when find_schema_times returns times for a date-only personal event,
\* the returned start falls on the personal event's calendar date.
C11_MatchOnSameDate ==
    (Matched /\ answer.kind = "times")
    => DateOf(answer.dtstart) = probe.user_event.dtstart

\* C11 witness: the matcher went past a reference event with a matching title
\* on another date and returned the one on the personal event's date.
C11_Witness ==
    /\ Matched
    /\ probe.user_event = PLab
    /\ probe.schema_events = <<RLab11, RLab9>>
    /\ answer = [kind |-> "times", dtstart |-> RLab9.dtstart, dtend |-> RLab9.dtend]

\* C13: adjust_zoom_title applied to its own result, for the same event,
\* returns that result again; the answer is the title or "Zoom " + title.
C13_ZoomIdempotent ==
    (probe.fn = "adjust_zoom_title" /\ answer.kind = "again")
    => /\ answer.title = answer.first
       /\ answer.title \in {probe.title, ZoomPrefix \o probe.title}

\* C13 witness: a title that got the prefix on the first call was handed to
\* the second call, for an event held in a Zoom room.
C13_Witness ==
    /\ probe.fn = "adjust_zoom_title"
    /\ answer.kind = "again"
    /\ probe.title = SumQuiz
    /\ probe.event = PLab
    /\ answer.first = TitleZoomQuiz

\* Two summaries that differ only in letter case or amount of whitespace:
\* the normalization of clean_text makes them equal.
SameNormalized(a, b) == clean_text(a) = clean_text(b)

\* Two components that differ at most in that way in their summaries.
VariantEvent(a, b) ==
    /\ DOMAIN a = DOMAIN b
    /\ \A k \in DOMAIN a \ {"summary"} : a[k] = b[k]
    /\ SameNormalized(Get(a, "summary", <<>>), Get(b, "summary", <<>>))

\* Two reference feeds whose components differ at most in that way.
VariantFeed(s, t) ==
    /\ Len(s) = Len(t)
    /\ \A i \in 1..Len(s) : VariantEvent(s[i], t[i])

\* C14: find_schema_times gives the same answer for a personal event and a
\* reference feed as for every pair that differs from them only in the
\* letter case or the amount of whitespace of the summaries.
C14_SameForVariants ==
    Matched
    => \A u \in MatcherUsers : \A s \in MatcherFeeds :
          (VariantEvent(probe.user_event, u) /\ VariantFeed(probe.schema_events, s))
          => find_schema_times(u, s) = answer

\* C15: find_schema_times returns the start and end of the first reference
\* event, in feed order, with a date-time start on the personal event's date
\* and a core title containing or contained in the personal one, and None
\* exactly when there is no such reference event.
C15_FirstMatch ==
    Matched
    => LET u == probe.user_event
           s == probe.schema_events
       IN  IF QualifyingAt(u, s) = {}
           THEN answer.kind = "None"
           ELSE LET se == s[FirstQualifying(u, s)]
                IN  /\ answer.kind = "times"
                    /\ answer.dtstart = se.dtstart
                    /\ "dtend" \in DOMAIN se => answer.dtend = se.dtend

\* C16: for a date-only component that lines 150-161 resolve, the resolved
\* start and end are those of the first matching reference event when there is
\* one, and 23:00 and 23:59 on the component's own date when there is none.
C16_MatchedOrFallback ==
    (probe.fn = "ResolveTimes" /\ answer.kind = "times")
    => LET u == probe.comp
           s == probe.schema_events
       IN  IF QualifyingAt(u, s) = {}
           THEN /\ answer.dtstart = [day |-> u.dtstart.day, hour |-> 23, minute |-> 0]
                /\ answer.dtend = [day |-> u.dtstart.day, hour |-> 23, minute |-> 59]
           ELSE LET se == s[FirstQualifying(u, s)]
                IN  /\ answer.dtstart = se.dtstart
                    /\ answer.dtend = se.dtend
                    /\ TaskFor(u, answer).due = se.dtstart

\* C16 witness: a date-only component was resolved to the times of the
\* reference event found after a bare-date one.
C16_Witness ==
    /\ probe.fn = "ResolveTimes"
    /\ probe.comp = PLab
    /\ probe.schema_events = <<RLabDateOnly, RLab9>>
    /\ answer = [kind |-> "times", dtstart |-> RLab9.dtstart, dtend |-> RLab9.dtend]

\* C20: find_schema_times returns times only when neither core title is
\* empty: that of the personal event and that of the reference event whose
\* times are returned.
C20_NoMatchOnEmptyTitle ==
    (Matched /\ answer.kind = "times")
    => LET u == probe.user_event
           s == probe.schema_events
           se == s[FirstQualifying(u, s)]
       IN  /\ extract_lecture_title(Get(u, "summary", <<>>)) # <<>>
           /\ extract_lecture_title(Get(se, "summary", <<>>)) # <<>>

\* C17: after a pass has saved its set of identifiers, every identifier of
\* that set is in the set load_added_events reads back from the file.
C17_StoreRoundTrip ==
    (pc = "idle" /\ outcome = "completed")
    => \A event_id \in added_events : event_id \in Stored

\* C18: a pass that created tasks ends as completed only when the tracking
\* file holds their identifiers; when the write failed and left one of them
\* out, the pass has ended with the exception.
C18_WriteFailureSurfaces ==
    (pc = "idle" /\ OkIds(calls) # {} /\ ~(OkIds(calls) \subseteq Lines(file)))
    => outcome = "raised"

\* C18 witness: save_added_events failed at the end of a pass that had
\* created a task, and the file lacks the identifier of that task.
C18_Witness ==
    /\ pc = "idle"
    /\ pos > Len(user_events)
    /\ OkIds(calls) # {}
    /\ ~(OkIds(calls) \subseteq Lines(file))
    /\ outcome = "raised"

\* C19: a pass whose two feeds were fetched and parsed and whose tracking
\* file was read ends only after the loop has gone through every component
\* of the personal feed.
C19_NoEventAborts ==
    (pc = "idle" /\ passes > 0 /\ fetched = [user |-> "ok", schema |-> "ok"])
    => pos > Len(user_events)

\* C12: of two passes that overlap, at most one gets a task from
\* api.add_task for any identifier.
C12_AtMostOneRunCreates == run_newly[1] \cap run_newly[2] = {}

====
